---- MODULE Spec2Model ----
(***************************************************************************)
(* Model of proxy_target_resolver.py: main() reads the nginx and apache2   *)
(* configurations, resolve_targets() drains the frontier of proxy targets, *)
(* and main() joins the resolved targets with the per-vhost domain info.   *)
(*                                                                         *)
(* Python strings that the code inspects (startswith, split, strip, slice) *)
(* are sequences of one-character strings, so every conversion is computed *)
(* rather than assumed.  Process identifiers and service names are never   *)
(* inspected beyond truthiness and are plain strings.                      *)
(***************************************************************************)
EXTENDS Integers, Sequences, FiniteSets, TLC

VARIABLES
    apache_files,     \* the files under /etc/apache2/sites-enabled (input)
    nginx_lines,      \* the lines of the nginx configuration (input)
    pc,               \* position of main(): start, resolving, returned, reported, nothing, raised
    exc,              \* the exception that ended the run ("" while none)
    targets,          \* resolve_targets: the frontier (a Python set)
    visited,          \* resolve_targets: visited
    details,          \* resolve_targets: details, key -> record
    processed_pids,   \* resolve_targets: processed_pids
    infos,            \* read_apache_config: infos, proxypass primary -> _info
    all_domains,      \* main: all_domains
    report,           \* main: associated domains printed for each resolved key
    last,             \* history: the most recent completed loop iteration
    probes,           \* history: frontier entry -> number of probes made for it
    lookups,          \* history: pid -> number of get_systemctl_service calls
    enqueued,         \* history: the targets added by the discovery step
    configured        \* history: the frontier passed to resolve_targets

vars == <<apache_files, nginx_lines, pc, exc, targets, visited, details,
          processed_pids, infos, all_domains, report, last, probes, lookups, enqueued,
          configured>>

hist == <<last, probes, lookups, enqueued>>

----------------------------------------------------------------------------
(* Bounds *)

\* at most this many apache2 configuration files are present
MaxFiles == 2

----------------------------------------------------------------------------
(* String literals of the source *)

S_ProxyPass == <<"P","r","o","x","y","P","a","s","s">>
S_ServerName == <<"S","e","r","v","e","r","N","a","m","e">>
S_ServerAlias == <<"S","e","r","v","e","r","A","l","i","a","s">>
S_VHostOpen == <<"<","V","i","r","t","u","a","l","H","o","s","t">>
S_VHostClose == <<"<","/","V","i","r","t","u","a","l","H","o","s","t",">">>
S_proxy_pass == <<"p","r","o","x","y","_","p","a","s","s">>
S_server_name == <<"s","e","r","v","e","r","_","n","a","m","e">>
S_http == <<"h","t","t","p">>
S_httpScheme == <<"h","t","t","p",":","/","/">>
S_unix == <<"u","n","i","x",":">>
S_qhttp == <<"\"","h","t","t","p">>
S_qunix == <<"\"","u","n","i","x",":">>
S_loopback == <<"1","2","7",".","0",".","0",".","1",":">>
S_80 == <<"8","0">>

----------------------------------------------------------------------------
(* Python str operations *)

StartsWith(s, p) == Len(s) >= Len(p) /\ SubSeq(s, 1, Len(p)) = p

EndsWith(s, p) == Len(s) >= Len(p) /\ SubSeq(s, Len(s) - Len(p) + 1, Len(s)) = p

\* c in s, for a one-character c
HasChar(s, c) == \E i \in 1..Len(s) : s[i] = c

\* p in s, for a substring p
IsSubstr(p, s) == \E i \in 1..(Len(s) - Len(p) + 1) : SubSeq(s, i, i + Len(p) - 1) = p

\* s.split(c)
RECURSIVE Split(_, _)
Split(s, c) ==
    IF ~HasChar(s, c) THEN <<s>>
    ELSE LET i == CHOOSE k \in 1..Len(s) : s[k] = c /\ \A j \in 1..(k - 1) : s[j] # c
         IN  <<SubSeq(s, 1, i - 1)>> \o Split(SubSeq(s, i + 1, Len(s)), c)

RECURSIVE LStrip(_, _)
LStrip(s, c) == IF s # <<>> /\ Head(s) = c THEN LStrip(Tail(s), c) ELSE s

RECURSIVE RStrip(_, _)
RStrip(s, c) == IF s # <<>> /\ s[Len(s)] = c THEN RStrip(SubSeq(s, 1, Len(s) - 1), c) ELSE s

\* s.strip(c)
Strip(s, c) == RStrip(LStrip(s, c), c)

\* Optional strings: Python None against a str
None == [some |-> FALSE, s |-> <<>>]
Some(s) == [some |-> TRUE, s |-> s]

\* truth value of an optional str (None and "" are false)
Truthy(o) == o.some /\ o.s # <<>>

\* elements of the frontier: the 2-tuple read_apache_config produces, and the
\* bare str that read_nginx_config and the discovery step produce
Pair(p, f) == [kind |-> "pair", a |-> p, b |-> f]
Bare(s) == [kind |-> "str", a |-> Some(s), b |-> None]

\* the elements of a sequence
Range(q) == {q[i] : i \in 1..Len(q)}

----------------------------------------------------------------------------
(* Configuration readers *)

\* reconstruct_line: the parts of the line before the first part starting with #
RECURSIVE reconstruct_line(_)
reconstruct_line(parts) ==
    IF parts = <<>> \/ StartsWith(Head(parts), <<"#">>) THEN <<>>
    ELSE <<Head(parts)>> \o reconstruct_line(Tail(parts))

\* proxypass_target over the parts of the line
RECURSIVE proxypass_target(_)
proxypass_target(parts) ==
    IF parts = <<>> THEN Pair(None, None)
    ELSE LET part == Head(parts) IN
         IF HasChar(part, "|")
         THEN Pair(Some(Strip(Split(part, "|")[1], "\"")),
                   Some(Strip(Split(part, "|")[2], "\"")))
         ELSE IF StartsWith(part, S_qhttp) THEN Pair(Some(Strip(part, "\"")), None)
         ELSE IF StartsWith(part, S_qunix) THEN Pair(Some(Strip(part, "\"")), None)
         ELSE proxypass_target(Tail(parts))

\* the _info dict of one file; absent keys carry has = FALSE
EmptyInfo == [hasproxy |-> FALSE, proxypass |-> Pair(None, None),
              hasname |-> FALSE, name |-> <<>>,
              hasalias |-> FALSE, alias |-> <<>>]

LineHas(parts, word) == \E i \in 1..Len(parts) : IsSubstr(word, parts[i])

\* dict assignment d[k] = v
DictSet(d, k, v) == [x \in (DOMAIN d) \cup {k} |-> IF x = k THEN v ELSE d[x]]

\* the body of `for line in file` of read_apache_config, on the state
\* [in_vh, info, targets, domains, infos]
ApacheLine(st, rawparts) ==
    LET first == IF rawparts = <<>> THEN <<>> ELSE Head(rawparts)
        in_vh == st.in_vh \/ StartsWith(first, S_VHostOpen)
        in_comment == StartsWith(first, <<"#">>)
        active == in_vh /\ ~in_comment
        parts == IF active THEN reconstruct_line(rawparts) ELSE rawparts
        pp == active /\ LineHas(parts, S_ProxyPass)
        sn == active /\ LineHas(parts, S_ServerName) /\ Len(parts) > 1
        sa == active /\ LineHas(parts, S_ServerAlias) /\ Len(parts) > 1
        target == proxypass_target(parts)
        info1 == IF pp THEN [st.info EXCEPT !.hasproxy = TRUE, !.proxypass = target]
                 ELSE st.info
        info2 == IF sn THEN [info1 EXCEPT !.hasname = TRUE, !.name = parts[2]] ELSE info1
        info3 == IF sa THEN [info2 EXCEPT !.hasalias = TRUE, !.alias = Tail(parts)] ELSE info2
        doms == st.domains \cup (IF sn THEN {parts[2]} ELSE {})
                           \cup (IF sa THEN Range(Tail(parts)) ELSE {})
        closes == parts # <<>> /\ StartsWith(Head(parts), S_VHostClose)
    IN  [in_vh   |-> in_vh /\ ~closes,
         info    |-> info3,
         targets |-> st.targets \cup (IF pp THEN {target} ELSE {}),
         domains |-> doms,
         infos   |-> IF closes /\ info3.hasproxy
                     THEN DictSet(st.infos, info3.proxypass.a, info3)
                     ELSE st.infos]

RECURSIVE ApacheLines(_, _)
ApacheLines(st, lines) ==
    IF lines = <<>> THEN st ELSE ApacheLines(ApacheLine(st, Head(lines)), Tail(lines))

\* read_apache_config over the files in listing order
RECURSIVE read_apache_config(_, _)
read_apache_config(st, listing) ==
    IF listing = <<>> THEN st
    ELSE read_apache_config(
             ApacheLines([st EXCEPT !.in_vh = FALSE, !.info = EmptyInfo], Head(listing)),
             Tail(listing))

ApacheStart == [in_vh |-> FALSE, info |-> EmptyInfo, targets |-> {}, domains |-> {},
                infos |-> <<>>]

\* read_nginx_config: the targets and the domains of a set of lines
read_nginx_targets(lines) ==
    {Bare(Strip(l[2], ";")) : l \in {x \in lines :
        LineHas(x, S_proxy_pass) /\ Len(x) > 1 /\ StartsWith(x[2], S_http)}}

read_nginx_domains(lines) ==
    UNION {Range(Tail(l)) : l \in {x \in lines : LineHas(x, S_server_name) /\ Len(x) > 1}}

----------------------------------------------------------------------------
(* Inputs: configuration files, probe outputs, systemctl outputs *)

Q == <<"\"">>
S_81 == <<"8","1">>
A_lo80 == S_loopback \o S_80
A_lo81 == S_loopback \o S_81
A_unixA == S_unix \o <<"/","a">>
A_unixB == S_unix \o <<"/","b">>
A_ext == <<"1","0",".","0",".","0",".","1",":","8","0">>
T_http80 == S_httpScheme \o A_lo80
T_http81 == S_httpScheme \o A_lo81

\* ProxyPass directive values
V_http == Q \o T_http80 \o Q
V_httpSlash == Q \o T_http80 \o <<"/">> \o Q
V_unix == Q \o A_unixA \o Q
V_failover == Q \o T_http80 \o <<"|">> \o T_http81 \o Q
V_unixFailover == Q \o A_unixA \o <<"|">> \o A_unixB \o Q
V_unquoted == T_http80
V_https == Q \o <<"h","t","t","p","s",":","/","/","h",":","1">> \o Q

\* one file holding one <VirtualHost> block
VHostFile(value, name, aliases, comment) ==
    << <<S_VHostOpen, <<"*",":","8","0",">">> >>,
       <<S_ProxyPass, <<"/">>, value>> \o comment,
       <<S_ServerName, name>> >>
    \o (IF aliases = <<>> THEN <<>> ELSE << <<S_ServerAlias>> \o aliases >>)
    \o << <<S_VHostClose>> >>

ApacheFileUniverse ==
    { VHostFile(V_http,         <<"n","1">>, <<>>, <<>>),
      VHostFile(V_httpSlash,    <<"n","2">>, << <<"m","2">> >>, <<>>),
      VHostFile(V_unix,         <<"n","3">>, <<>>, <<>>),
      VHostFile(V_failover,     <<"n","4">>, <<>>, <<>>),
      VHostFile(V_unixFailover, <<"n","5">>, << <<"m","5">> >>, << <<"#","x">> >>),
      VHostFile(V_unquoted,     <<"n","6">>, <<>>, <<>>),
      VHostFile(V_https,        <<"n","7">>, <<>>, <<>>) }

NginxLineUniverse == { <<S_proxy_pass, T_http80 \o <<";">> >> }

\* the orders in which os.listdir may list a set of files
Listings(S) ==
    {q \in [1..Cardinality(S) -> S] : \A i, j \in 1..Cardinality(S) : i # j => q[i] # q[j]}

\* process identifiers lsof may print
Pids == {"1", "2"}

\* entries of a usage list: a line of lsof output (a str, the only shape
\* check_port_usage and check_unix_socket_usage return), or an entry carrying
\* the bound address under 'name', the shape the discovery step reads
PidEntry(p) == [kind |-> "str", pid |-> p, name |-> <<>>]
NameEntry(n) == [kind |-> "dict", pid |-> "", name |-> n]

\* the usage lists of a probe that ran; stdout.strip().split('\n') is never
\* an empty list, empty output gives ['']
ProbeOutputs ==
    { <<PidEntry(""), NameEntry(A_ext)>>,
      <<PidEntry("1")>>,
      <<PidEntry("1"), PidEntry("2")>>,
      <<NameEntry(A_lo81)>>,
      <<PidEntry("1"), NameEntry(A_lo80)>>,
      <<NameEntry(A_unixA), NameEntry(A_unixB)>> }

\* what one run of the probe command does: raise, or print lines
ProbeRuns == {[ok |-> FALSE, lines |-> <<>>]} \cup {[ok |-> TRUE, lines |-> o] : o \in ProbeOutputs}

\* stdout of `systemctl status <pid>`: lines of space-separated tokens
StatusOutputs ==
    { << <<"*", "a.service", "-", "A">>, <<"Loaded:", "loaded">>, <<"Active:", "active">> >>,
      << <<"">> >> }

ServiceError == "Error finding service"

\* the systemctl outputs that can matter to a probe run: one answer for each
\* pid the run prints, the pids it does not print left at the first answer
StatusAnswers(run) ==
    LET printed == {x.pid : x \in Range(run.lines)}
        dflt == CHOOSE o \in StatusOutputs : Len(o) = 1
    IN  {f \in [Pids -> StatusOutputs] : \A p \in Pids \ printed : f[p] = dflt}

----------------------------------------------------------------------------
(* Probes and service lookup *)

\* variant: the failure is swallowed and an empty list returned
check_port_usage_Swallow(run) == [islist |-> TRUE, entries |-> run.lines]

\* check_port_usage: the list of output lines, or the error str
check_port_usage(run) ==
    IF run.ok THEN [islist |-> TRUE, entries |-> run.lines]
    ELSE [islist |-> FALSE, entries |-> <<>>]

\* check_unix_socket_usage: the list of output lines, or [] after logging the error
check_unix_socket_usage(run) ==
    IF run.ok THEN [islist |-> TRUE, entries |-> run.lines]
    ELSE [islist |-> TRUE, entries |-> <<>>]

\* parse_systemctl_service_status: lines[0].split(" ")[1], IndexError when absent
parse_systemctl_service_status(status) ==
    IF Len(status[1]) >= 2 THEN [ok |-> TRUE, name |-> status[1][2]]
    ELSE [ok |-> FALSE, name |-> ""]

\* get_systemctl_service: the unit name, or the error str when parsing raised
get_systemctl_service(status) ==
    LET r == parse_systemctl_service_status(status)
    IN  IF r.ok THEN r.name ELSE ServiceError

----------------------------------------------------------------------------
(* resolve_targets *)

\* variant: the popped element stays in the set
Pop_Keep(ts, e) == ts

\* targets.pop() leaves the rest of the set
Pop(ts, e) == ts \ {e}

\* primary, failover = target
Unpack(e) ==
    IF e.kind = "pair" THEN [ok |-> TRUE, primary |-> e.a, failover |-> e.b]
    ELSE IF Len(e.a.s) = 2
         THEN [ok |-> TRUE, primary |-> Some(<<e.a.s[1]>>), failover |-> Some(<<e.a.s[2]>>)]
         ELSE [ok |-> FALSE, primary |-> None, failover |-> None]

\* variant: the failover branch resolves the backup
SelectTarget_Backup(primary, failover) ==
    IF Truthy(primary) /\ Truthy(failover) THEN failover ELSE primary

\* the target that is resolved: the primary on both branches
SelectTarget(primary, failover) ==
    IF Truthy(primary) /\ Truthy(failover) THEN primary ELSE primary

\* visited after the two visited.add calls
MarkVisited(vis, primary, failover) ==
    vis \cup (IF Truthy(primary) /\ Truthy(failover) THEN {primary} ELSE {})
        \cup {SelectTarget(primary, failover)}

\* the address that is probed and the key of details
Normalize(t) ==
    IF StartsWith(t, S_unix)
    THEN [ok |-> TRUE, kind |-> "unix", key |-> t, host |-> SubSeq(t, 6, Len(t)), port |-> <<>>]
    ELSE LET u == IF StartsWith(t, S_httpScheme) THEN SubSeq(t, 8, Len(t)) ELSE t
             sp == Split(u, ":")
         IN  IF ~HasChar(u, ":")
             THEN [ok |-> TRUE, kind |-> "tcp", key |-> u, host |-> u, port |-> S_80]
             ELSE IF Len(sp) = 2
                  THEN [ok |-> TRUE, kind |-> "tcp", key |-> u, host |-> sp[1], port |-> sp[2]]
                  ELSE [ok |-> FALSE, kind |-> "tcp", key |-> u, host |-> <<>>, port |-> <<>>]

\* variant: the pid cache is not consulted
NeedsLookup_NoCache(entry, processed) == entry.kind = "str" /\ entry.pid # ""

\* pid and isinstance(pid, str) and pid not in processed_pids
NeedsLookup(entry, processed) ==
    entry.kind = "str" /\ entry.pid # "" /\ entry.pid \notin processed

\* variant: the pid is not recorded
MarkProcessed_Forget(processed, pid) == processed

\* processed_pids.add(pid)
MarkProcessed(processed, pid) == processed \cup {pid}

\* for entry in usage_info: on acc = [services, processed, calls]
RECURSIVE ServiceLoop(_, _, _)
ServiceLoop(entries, acc, sys) ==
    IF entries = <<>> THEN acc
    ELSE LET entry == Head(entries) IN
         IF NeedsLookup(entry, acc.processed)
         THEN ServiceLoop(Tail(entries),
                  [services  |-> acc.services \cup {get_systemctl_service(sys[entry.pid])},
                   processed |-> MarkProcessed(acc.processed, entry.pid),
                   calls     |-> Append(acc.calls, entry.pid)],
                  sys)
         ELSE ServiceLoop(Tail(entries), acc, sys)

\* variant: an existing key keeps its first record
Store_KeepFirst(d, key, rec) == IF key \in DOMAIN d THEN d ELSE DictSet(d, key, rec)

\* details[target] = {...}
Store(d, key, rec) == DictSet(d, key, rec)

\* the new targets of the discovery step, before the visited test; for a
\* str entry `'name' in entry` is a substring test, false for a pid
NewTargets(usage) ==
    IF ~usage.islist THEN {}
    ELSE {S_loopback \o Split(e.name, ":")[2] :
             e \in {x \in Range(usage.entries) : x.kind = "dict" /\ StartsWith(x.name, S_loopback)}}
         \cup
         {S_unix \o SubSeq(e.name, 6, Len(e.name)) :
             e \in {x \in Range(usage.entries) : x.kind = "dict" /\ StartsWith(x.name, S_unix)}}

\* the str objects added to targets
Discover(usage, vis) == {t \in NewTargets(usage) : Some(t) \notin vis}

----------------------------------------------------------------------------
(* main: reading the configuration *)

\* the history before the first iteration
NoIteration ==
    [done |-> FALSE, entry |-> Pair(None, None), target |-> <<>>, kind |-> "",
     host |-> <<>>, port |-> <<>>, key |-> <<>>, failed |-> FALSE,
     rec |-> [usage_info |-> [islist |-> TRUE, entries |-> <<>>], systemctl_service |-> {}],
     calls |-> <<>>, cached |-> {}, new |-> {}, hadkey |-> FALSE,
     old |-> [usage_info |-> [islist |-> TRUE, entries |-> <<>>], systemctl_service |-> {}]]

Init ==
    /\ apache_files \in {S \in SUBSET ApacheFileUniverse : Cardinality(S) <= MaxFiles}
    /\ nginx_lines \in SUBSET NginxLineUniverse
    /\ pc = "start"
    /\ exc = ""
    /\ targets = {}
    /\ visited = {}
    /\ details = <<>>
    /\ processed_pids = {}
    /\ infos = <<>>
    /\ all_domains = {}
    /\ report = <<>>
    /\ last = NoIteration
    /\ probes = <<>>
    /\ lookups = [p \in Pids |-> 0]
    /\ enqueued = {}
    /\ configured = {}

\* main up to the call of resolve_targets
ReadConfig ==
    /\ pc = "start"
    /\ \E listing \in Listings(apache_files) :
         LET r == read_apache_config(ApacheStart, listing)
             ts == read_nginx_targets(nginx_lines) \cup r.targets
             ds == read_nginx_domains(nginx_lines) \cup r.domains
         IN  /\ targets' = ts
             /\ configured' = ts
             /\ all_domains' = ds
             /\ infos' = r.infos
             /\ pc' = IF ts = {} /\ ds = {} THEN "nothing" ELSE "resolving"
    /\ UNCHANGED <<apache_files, nginx_lines, exc, visited, details, processed_pids,
                   report, hist>>

----------------------------------------------------------------------------
(* resolve_targets: one iteration of `while targets` *)

Raise(name, ts, vis) ==
    /\ pc' = "raised"
    /\ exc' = name
    /\ targets' = ts
    /\ visited' = vis
    /\ UNCHANGED <<details, processed_pids, hist, configured>>

\* the loop body from the probe to the discovery step
Resolve(e, raw, n, ts, vis, run, sys) ==
    \E usage \in {IF n.kind = "unix" THEN check_unix_socket_usage(run)
                  ELSE check_port_usage(run)} :
    \E sl \in {ServiceLoop(IF usage.islist THEN usage.entries ELSE <<>>,
                           [services |-> {}, processed |-> processed_pids, calls |-> <<>>],
                           sys)} :
    \E new \in {Discover(usage, vis)} :
      LET rec == [usage_info |-> usage, systemctl_service |-> sl.services]
      IN  /\ details' = Store(details, n.key, rec)
          /\ processed_pids' = sl.processed
          /\ targets' = ts \cup {Bare(t) : t \in new}
          /\ visited' = vis
          /\ last' = [done |-> TRUE, entry |-> e, target |-> raw, kind |-> n.kind,
                      host |-> n.host, port |-> n.port, key |-> n.key,
                      failed |-> ~run.ok, rec |-> rec, calls |-> sl.calls,
                      cached |-> processed_pids, new |-> new,
                      hadkey |-> n.key \in DOMAIN details,
                      old |-> IF n.key \in DOMAIN details THEN details[n.key] ELSE rec]
          /\ probes' = DictSet(probes, e, IF e \in DOMAIN probes THEN probes[e] + 1 ELSE 1)
          /\ lookups' = [p \in Pids |->
                           lookups[p] + Cardinality({i \in 1..Len(sl.calls) : sl.calls[i] = p})]
          /\ enqueued' = enqueued \cup new
          /\ UNCHANGED <<pc, exc, configured>>

Iterate ==
    /\ pc = "resolving"
    /\ targets # {}
    /\ \E e \in targets :
       \E u \in {Unpack(e)} :
         LET ts == Pop(targets, e)
             target == SelectTarget(u.primary, u.failover)
             vis == MarkVisited(visited, u.primary, u.failover)
         IN  IF ~u.ok THEN Raise("ValueError", ts, visited)
             ELSE IF ~target.some THEN Raise("AttributeError", ts, vis)
             ELSE \E n \in {Normalize(target.s)} :
                    IF ~n.ok THEN Raise("ValueError", ts, vis)
                    ELSE \E run \in ProbeRuns : \E sys \in StatusAnswers(run) :
                           Resolve(e, target.s, n, ts, vis, run, sys)
    /\ UNCHANGED <<apache_files, nginx_lines, infos, all_domains, report>>

\* `while targets` ends and resolve_targets returns details
Return ==
    /\ pc = "resolving"
    /\ targets = {}
    /\ pc' = "returned"
    /\ UNCHANGED <<apache_files, nginx_lines, exc, targets, visited, details,
                   processed_pids, infos, all_domains, report, hist, configured>>

----------------------------------------------------------------------------
(* main: the report *)

\* the key main looks up in infos for a key of resolved
ReportKey(key) == IF EndsWith(key, <<"/">>) THEN S_httpScheme \o key ELSE key

\* infos[target]["name"] raises KeyError when the vhost had no ServerName
ReportRaises(key) ==
    /\ Some(ReportKey(key)) \in DOMAIN infos
    /\ ~infos[Some(ReportKey(key))].hasname

\* associated_domains printed for a key of resolved
AssociatedDomains(key) ==
    LET t == Some(ReportKey(key))
    IN  IF t \in DOMAIN infos
        THEN (IF infos[t].hasalias THEN infos[t].alias ELSE <<>>) \o <<infos[t].name>>
        ELSE <<>>

Report ==
    /\ pc = "returned"
    /\ IF \E k \in DOMAIN details : ReportRaises(k)
       THEN /\ pc' = "raised"
            /\ exc' = "KeyError"
            /\ UNCHANGED report
       ELSE /\ pc' = "reported"
            /\ report' = [k \in DOMAIN details |-> AssociatedDomains(k)]
            /\ UNCHANGED exc
    /\ UNCHANGED <<apache_files, nginx_lines, targets, visited, details,
                   processed_pids, infos, all_domains, hist, configured>>

Next == ReadConfig \/ Iterate \/ Return \/ Report

Spec == Init /\ [][Next]_vars

----------------------------------------------------------------------------
(* Properties *)

\* an iteration of the loop completed in this step
Iterated == probes' # probes

\* the key of details a raw target string resolves to
KeyOf(t) == Normalize(t).key

\* the address handed to the probe for a frontier entry
ProbeAddress(e) ==
    LET u == Unpack(e)
        n == Normalize(SelectTarget(u.primary, u.failover).s)
    IN  [kind |-> n.kind, host |-> n.host, port |-> n.port]

\* the pids printed by the probe of the most recent iteration
LastPids ==
    {x.pid : x \in {y \in Range(last.rec.usage_info.entries) : y.kind = "str" /\ y.pid # ""}}

\* the number of lookups of pid p made before the most recent iteration
LookupsBefore(p) == lookups[p] - Cardinality({i \in 1..Len(last.calls) : last.calls[i] = p})

\* C1 as stated: each distinct target address is probed at most once in a
\* run, also when several frontier entries have it as primary.
C1_AddressProbedAtMostOnce ==
    \A e1, e2 \in DOMAIN probes :
        /\ probes[e1] <= 1
        /\ (e1 # e2 => ProbeAddress(e1) # ProbeAddress(e2))

\* C1 amended: each distinct frontier entry is popped and probed at most once
\* in a run and is never back in the frontier afterwards; an address is
\* probed once for every distinct entry that has it as primary.
C1_EntryProbedAtMostOnce ==
    \A e \in DOMAIN probes : probes[e] = 1 /\ e \notin targets

\* two frontier entries with the same primary were both probed
C1_SharedPrimaryProbedTwice ==
    \E e1, e2 \in DOMAIN probes :
        /\ e1 # e2
        /\ ProbeAddress(e1) = ProbeAddress(e2)
        /\ probes[e1] = 1 /\ probes[e2] = 1

\* a frontier entry that resolve_targets can unpack and normalise
WellFormed(e) == e.kind = "pair" /\ e.a.some /\ Normalize(e.a.s).ok

IndependentPrimary(s) ==
    \E e \in configured \cup {Bare(t) : t \in enqueued} :
        e.a.some /\ Normalize(e.a.s).ok /\ KeyOf(e.a.s) = KeyOf(s)

\* C4: the backup of a failover pair is never probed, visited, enqueued or
\* made a key of details, unless it is independently a primary; every probe
\* is made for the primary of the popped entry.
C4_BackupNeverTraversed ==
    /\ last.done => Some(last.target) = Unpack(last.entry).primary
    /\ \A e \in configured :
         (e.kind = "pair" /\ Truthy(e.a) /\ Truthy(e.b) /\ ~IndependentPrimary(e.b.s)) =>
            /\ e.b \notin visited
            /\ Bare(e.b.s) \notin targets
            /\ \A f \in targets : f.a # e.b
            /\ KeyOf(e.b.s) \notin DOMAIN details
            /\ \A f \in DOMAIN probes : KeyOf(Unpack(f).primary.s) # KeyOf(e.b.s)

\* a run returned after resolving a failover pair whose backup stayed out
C4_FailoverResolved ==
    /\ pc = "returned"
    /\ \E e \in DOMAIN probes :
         /\ e.kind = "pair" /\ Truthy(e.a) /\ Truthy(e.b)
         /\ KeyOf(e.a.s) \in DOMAIN details
         /\ KeyOf(e.b.s) \notin DOMAIN details
         /\ e.b \notin visited

\* C5: get_systemctl_service is called at most once for each pid in a run,
\* and a pid is in the cache exactly when it has been looked up.
C5_OneLookupPerPid ==
    \A p \in Pids : lookups[p] <= 1 /\ (lookups[p] = 1 <=> p \in processed_pids)

\* a pid whose lookup returned the error value was printed again by a later
\* probe and not looked up again
C5_CachedPidSeenAgain ==
    /\ last.done
    /\ \E p \in LastPids : LookupsBefore(p) = 1 /\ lookups[p] = 1
    /\ \E k \in DOMAIN details : ServiceError \in details[k].systemctl_service

\* the record stored for a target whose probe failed
FailureRecord(kind) ==
    [usage_info |-> [islist |-> kind = "unix", entries |-> <<>>], systemctl_service |-> {}]

C7_NonTargetIgnored ==
    /\ \A e \in targets : e.kind = "pair" => e.a.some
    /\ exc # "AttributeError"

\* C8: every completed iteration stores its own record under its key, also
\* when the key is already present, changes no other key and does not raise.
C8_LastWriteWins ==
    [][Iterated =>
         /\ pc' = "resolving" /\ exc' = ""
         /\ DOMAIN details' = (DOMAIN details) \cup {last'.key}
         /\ details'[last'.key] = last'.rec
         /\ \A k \in (DOMAIN details) \ {last'.key} : details'[k] = details[k]]_vars

\* two entries with the same primary were processed and the record of the
\* later one replaced a different earlier record
C8_Overwritten ==
    /\ last.done /\ last.hadkey
    /\ last.old # last.rec
    /\ details[last.key] = last.rec
    /\ \E e \in DOMAIN probes : e # last.entry /\ ProbeAddress(e) = ProbeAddress(last.entry)

\* the associated domains of an _info dict
DomainsOf(info) == (IF info.hasalias THEN info.alias ELSE <<>>) \o <<info.name>>

\* C9: for every resolved target whose proxy-pass primary is a key of infos,
\* the report prints the name and aliases of that entry.
C9_ReportJoinRoundTrip ==
    pc = "reported" =>
        \A e \in DOMAIN probes :
            (e.kind = "pair" /\ e.a \in DOMAIN infos) =>
                report[KeyOf(e.a.s)] = DomainsOf(infos[e.a])

\* C10: when every pid printed by the probe of an iteration was looked up in
\* an earlier iteration, the record stored has an empty service list.
C10_CachedPidsGiveNoService ==
    (last.done /\ \A p \in LastPids : LookupsBefore(p) >= 1) =>
        /\ last.calls = <<>>
        /\ details[last.key].systemctl_service = {}
        /\ details[last.key].usage_info = last.rec.usage_info

\* a later target printed an already looked-up pid and was stored with an
\* empty service list
C10_LaterTargetWithoutService ==
    /\ last.done
    /\ LastPids # {}
    /\ \A p \in LastPids : LookupsBefore(p) >= 1
    /\ details[last.key].systemctl_service = {}
    /\ \E k \in DOMAIN details : k # last.key /\ details[k].systemctl_service # {}

====
